---- MODULE Spec2Model ----
(***************************************************************************)
(* The two-tier memory subsystem of the NuriMate backend                   *)
(* (nurimate_backend/memory_system.py): ShortTermMemory, LongTermMemory    *)
(* and the MemorySystem facade that combines them, the profile file they   *)
(* persist to, and the handlers of nurimate_backend/server.py that drive   *)
(* the one module-level MemorySystem.                                      *)
(*                                                                         *)
(* Python lists are sequences, dicts are records.  xs[-k:] is LastN(xs,k), *)
(* xs.pop(0) is Tail(xs), [e for e in xs if p(e)] is SelectSeq(xs, p).     *)
(*                                                                         *)
(* Time.  The "time" stamp of a buffer entry (time.time() at insertion) is *)
(* its arrival ordinal within its buffer, and the "date" of a memorable    *)
(* moment is the stamp of the event it was made from (both are read within *)
(* one add_game_event call).  Durations are measured on a separate coarse  *)
(* clock, now, in seconds; total_time_played is kept in seconds, i.e. in   *)
(* units of 1/3600 hour (the code adds duration / 3600.0 hours).           *)
(***************************************************************************)
EXTENDS Naturals, Sequences, FiniteSets, TLC

VARIABLES
    conversations,       \* ShortTermMemory.conversations (game control)
    chat_conversations,  \* ShortTermMemory.chat_conversations (chat only)
    game_events,         \* ShortTermMemory.game_events
    session_start,       \* ShortTermMemory.session_start
    data,                \* LongTermMemory.data, the in-memory profile
    now,                 \* the wall clock read by time.time(), seconds
    ret,                 \* the value the last MemorySystem call returned
    conv_log,            \* history: every turn ever passed to add_conversation
    chat_log,            \* history: every turn ever passed to add_chat_message
    event_log,           \* history: every event ever passed to add_game_event
    ops,                 \* number of record / session-end calls made so far
    switches,            \* number of calls whose input differed from the previous one
    file,                \* data/memory_<player_id>.json: missing, unparsable or a document
    disk,                \* what the file system does with an open(): "ok", "denied", "full"
    saved,               \* history: the profile of the last save that the file still holds
    closes,              \* history: update_long_term calls on this MemorySystem
    up,                  \* the server process is running
    ws,                  \* the /ai WebSocket connection: "none" or "open"
    memory_context,      \* ai_websocket's local memory_context while connected
    http,                \* a game client has posted to /perceive in this process
    ended,               \* history: number of sessions that have ended
    prompt,              \* the messages of the last request made to the LLM
    last_perception_data, \* server.py's global: the last text perception
    threads              \* where each request thread of the server stands

\* the persistent side: the file, the file system, and the history of saves
persist == <<file, disk, saved>>

\* the transport side: the process, its connection and its clients
serving == <<up, ws, memory_context, http, ended, prompt, last_perception_data,
             threads>>

vars == <<conversations, chat_conversations, game_events, session_start, data,
          now, ret, conv_log, chat_log, event_log, ops, switches, persist,
          closes, serving>>

---------------------------------------------------------------------------
(* Bounds of the exploration *)

\* most record / session-end calls in one run
MaxOps == 11

\* most calls of a run whose role (event type) differs from the one of the
\* previous call on the same buffer; which calls those are is unconstrained
MaxSwitches == 1
MaxStoreOps == 5

\* most requests, messages, connects and disconnects the server handles in a run
MaxRequests == 4

\* most perception requests the server's threads take up in a run
MaxThreadRequests == 6

---------------------------------------------------------------------------
(* Program constants *)

\* ShortTermMemory.__init__ defaults, as MemorySystem constructs it
max_conversations == 10
max_events == 10
\* literal bound of the chat-only buffer
max_chat == 10
\* literal bound of memorable_moments
max_memories == 10
\* slice widths of get_summary, get_chat_history, get_relevant_memories
summary_conversations == 5
summary_chat == 3
summary_events == 5
chat_history_len == 6
relevant_memories_len == 3
\* integrate_session / _update_playstyle thresholds
long_session_seconds == 600
max_relationship == 10
aggressive_over == 5
balanced_over == 2

---------------------------------------------------------------------------
(* Inputs *)

Roles == {"user", "assistant"}
Contents == {"text"}

memorable_types == {"close_call", "victory", "defeat", "milestone",
                    "funny_moment", "first_time", "achievement"}
notable_types == {"close_call", "victory", "milestone"}

\* one type that is memorable and notable, one that is memorable only (and
\* has no entry in the summaries lookup), one that is neither
EventTypes == {"victory", "achievement", "obstacle"}

\* details dicts: one string key, one string value
Details == {[key |-> "reason", val |-> "wall"]}

\* instants at which the clock is read
Instants == {0, 600, 700}

---------------------------------------------------------------------------
(* Python helpers *)

Min(a, b) == IF a < b THEN a ELSE b

\* xs[-k:]
LastN(xs, k) ==
    IF Len(xs) <= k THEN xs ELSE SubSeq(xs, Len(xs) - k + 1, Len(xs))

\* str(details) of a one-pair dict of strings
str(details) == "{'" \o details.key \o "': '" \o details.val \o "'}"

---------------------------------------------------------------------------
(* ShortTermMemory *)

\* append, then pop(0) when the list is longer than its bound
PushBounded(xs, e, bound) ==
    LET appended == Append(xs, e)
    IN  IF Len(appended) > bound THEN Tail(appended) ELSE appended

\* mutant: pop() for pop(0), the newest turn is the one dropped
STM_add_conversation_pop_last(convs, role, content, t) ==
    LET appended == Append(convs, [role |-> role, content |-> content, time |-> t])
    IN  IF Len(appended) > max_conversations
        THEN SubSeq(appended, 1, Len(appended) - 1)
        ELSE appended

STM_add_conversation(convs, role, content, t) ==
    PushBounded(convs, [role |-> role, content |-> content, time |-> t],
                max_conversations)

STM_add_chat_message(chats, role, content, t) ==
    PushBounded(chats, [role |-> role, content |-> content, time |-> t],
                max_chat)

get_chat_history(chats) == LastN(chats, chat_history_len)

add_event(events, event_type, details, t) ==
    PushBounded(events, [type |-> event_type, details |-> details, time |-> t],
                max_events)

\* mutant: conversations[:5] for conversations[-5:]
get_summary_first_five(convs, chats, events, start, t) ==
    [recent_conversations |-> SubSeq(convs, 1, Min(summary_conversations, Len(convs))),
     recent_chat_messages |-> LastN(chats, summary_chat),
     recent_events        |-> LastN(events, summary_events),
     session_duration     |-> t - start]

\* mutant: the slices forgotten, the raw buffers handed out
get_summary_unsliced(convs, chats, events, start, t) ==
    [recent_conversations |-> convs,
     recent_chat_messages |-> chats,
     recent_events        |-> events,
     session_duration     |-> t - start]

get_summary(convs, chats, events, start, t) ==
    [recent_conversations |-> LastN(convs, summary_conversations),
     recent_chat_messages |-> LastN(chats, summary_chat),
     recent_events        |-> LastN(events, summary_events),
     session_duration     |-> t - start]

\* mutant: the memorable list used for the notable one
_is_notable_memorable(event) == event.type \in memorable_types

_is_notable(event) == event.type \in notable_types

summarize_session(convs, events, start, t) ==
    [duration           |-> t - start,
     conversation_count |-> Len(convs),
     event_count        |-> Len(events),
     notable_events     |-> SelectSeq(events, _is_notable)]

---------------------------------------------------------------------------
(* LongTermMemory *)

\* mutant: a new player starts at level 0
create_new_profile_level_zero(t) ==
    [player_id          |-> "demo_player",
     player_name        |-> "Player",
     created_at         |-> t,
     playstyle          |-> "unknown",
     relationship_level |-> 0,
     memorable_moments  |-> <<>>,
     preferences        |-> [likes |-> <<>>, dislikes |-> <<>>],
     total_time_played  |-> 0,
     sessions_count     |-> 0]

create_new_profile(t) ==
    [player_id          |-> "demo_player",
     player_name        |-> "Player",
     created_at         |-> t,
     playstyle          |-> "unknown",
     relationship_level |-> 1,
     memorable_moments  |-> <<>>,
     preferences        |-> [likes |-> <<>>, dislikes |-> <<>>],
     total_time_played  |-> 0,
     sessions_count     |-> 0]

\* mutant: an unknown tag is summarized by the tag itself
_summarize_event_by_tag(event_type, details) ==
    CASE event_type = "close_call"   -> "Had a close call in combat"
      [] event_type = "victory"      -> "Achieved victory together"
      [] event_type = "defeat"       -> "Faced defeat but learned from it"
      [] event_type = "milestone"    -> "Reached an important milestone"
      [] event_type = "funny_moment" -> "Shared a funny moment"
      [] event_type = "first_time"   -> "First time experience"
      [] OTHER                       -> event_type

_summarize_event(event_type, details) ==
    CASE event_type = "close_call"   -> "Had a close call in combat"
      [] event_type = "victory"      -> "Achieved victory together"
      [] event_type = "defeat"       -> "Faced defeat but learned from it"
      [] event_type = "milestone"    -> "Reached an important milestone"
      [] event_type = "funny_moment" -> "Shared a funny moment"
      [] event_type = "first_time"   -> "First time experience"
      [] OTHER                       -> str(details)

\* mutant: the moment appended, the bound never enforced
add_memory_unbounded(d, event_type, details, t) ==
    LET memory == [date    |-> t,
                   type    |-> event_type,
                   summary |-> _summarize_event(event_type, details)]
    IN  [d EXCEPT !.memorable_moments = Append(@, memory)]

add_memory(d, event_type, details, t) ==
    LET memory == [date    |-> t,
                   type    |-> event_type,
                   summary |-> _summarize_event(event_type, details)]
    IN  [d EXCEPT !.memorable_moments = PushBounded(@, memory, max_memories)]

\* mutant: memorable_moments[:3] for memorable_moments[-3:]
get_relevant_memories_first_three(d) ==
    [player_name        |-> d.player_name,
     playstyle          |-> d.playstyle,
     relationship_level |-> d.relationship_level,
     last_3_memories    |-> SubSeq(d.memorable_moments, 1,
                               Min(relevant_memories_len, Len(d.memorable_moments))),
     player_preferences |-> d.preferences,
     sessions_count     |-> d.sessions_count]

get_relevant_memories(d) ==
    [player_name        |-> d.player_name,
     playstyle          |-> d.playstyle,
     relationship_level |-> d.relationship_level,
     last_3_memories    |-> LastN(d.memorable_moments, relevant_memories_len),
     player_preferences |-> d.preferences,
     sessions_count     |-> d.sessions_count]

\* mutant: >= for > in the first threshold
_update_playstyle_at_five(d, events) ==
    [d EXCEPT !.playstyle =
        IF Len(events) >= aggressive_over THEN "aggressive"
        ELSE IF Len(events) > balanced_over THEN "balanced"
        ELSE "tactical"]

\* mutant: no else branch, a quiet session leaves the playstyle as it is
_update_playstyle_no_default(d, events) ==
    [d EXCEPT !.playstyle =
        IF Len(events) > aggressive_over THEN "aggressive"
        ELSE IF Len(events) > balanced_over THEN "balanced"
        ELSE @]

_update_playstyle(d, events) ==
    [d EXCEPT !.playstyle =
        IF Len(events) > aggressive_over THEN "aggressive"
        ELSE IF Len(events) > balanced_over THEN "balanced"
        ELSE "tactical"]

\* mutant: a session is counted once, later calls leave the profile alone
integrate_session_once(d, session_summary) ==
    IF d.sessions_count > 0 THEN d
    ELSE _update_playstyle(
             [d EXCEPT !.total_time_played = @ + session_summary.duration,
                       !.sessions_count = @ + 1,
                       !.relationship_level =
                           IF session_summary.duration > long_session_seconds
                           THEN Min(max_relationship, @ + 1)
                           ELSE @],
             session_summary.notable_events)

\* mutant: the level raised without the min(10, ...) clamp
integrate_session_unclamped(d, session_summary) ==
    _update_playstyle(
        [d EXCEPT !.total_time_played = @ + session_summary.duration,
                  !.sessions_count = @ + 1,
                  !.relationship_level =
                      IF session_summary.duration > long_session_seconds
                      THEN @ + 1
                      ELSE @],
        session_summary.notable_events)

\* mutant: >= 600 for > 600
integrate_session_at_ten_minutes(d, session_summary) ==
    _update_playstyle(
        [d EXCEPT !.total_time_played = @ + session_summary.duration,
                  !.sessions_count = @ + 1,
                  !.relationship_level =
                      IF session_summary.duration >= long_session_seconds
                      THEN Min(max_relationship, @ + 1)
                      ELSE @],
        session_summary.notable_events)

integrate_session(d, session_summary) ==
    _update_playstyle(
        [d EXCEPT !.total_time_played = @ + session_summary.duration,
                  !.sessions_count = @ + 1,
                  !.relationship_level =
                      IF session_summary.duration > long_session_seconds
                      THEN Min(max_relationship, @ + 1)
                      ELSE @],
        session_summary.notable_events)

\* json.dump(self.data): a JSON object is the sequence of its members
\* <<name, value>> in insertion order; a value is tagged with its JSON type
\* (str, num, list, obj).  Stamps (created_at, date) are isoformat strings.
json_dump_moment(m) ==
    <<<<"date", [str |-> m.date]>>,
      <<"type", [str |-> m.type]>>,
      <<"summary", [str |-> m.summary]>>>>

json_dump_strings(xs) == [i \in 1..Len(xs) |-> [str |-> xs[i]]]

json_dump(d) ==
    <<<<"player_id", [str |-> d.player_id]>>,
      <<"player_name", [str |-> d.player_name]>>,
      <<"created_at", [str |-> d.created_at]>>,
      <<"playstyle", [str |-> d.playstyle]>>,
      <<"relationship_level", [num |-> d.relationship_level]>>,
      <<"memorable_moments",
        [list |-> [i \in 1..Len(d.memorable_moments) |->
                      [obj |-> json_dump_moment(d.memorable_moments[i])]]]>>,
      <<"preferences",
        [obj |-> <<<<"likes", [list |-> json_dump_strings(d.preferences.likes)]>>,
                   <<"dislikes", [list |-> json_dump_strings(d.preferences.dislikes)]>>>>]>>,
      <<"total_time_played", [num |-> d.total_time_played]>>,
      <<"sessions_count", [num |-> d.sessions_count]>>>>

\* obj[name] of a parsed JSON object
Member(obj, name) == obj[CHOOSE i \in 1..Len(obj) : obj[i][1] = name][2]

json_load_strings(xs) == [i \in 1..Len(xs) |-> xs[i].str]

json_load_moment(obj) ==
    [date    |-> Member(obj, "date").str,
     type    |-> Member(obj, "type").str,
     summary |-> Member(obj, "summary").str]

\* json.load(f) of a document json.dump wrote: the dict with the same keys
json_load(doc) ==
    [player_id          |-> Member(doc, "player_id").str,
     player_name        |-> Member(doc, "player_name").str,
     created_at         |-> Member(doc, "created_at").str,
     playstyle          |-> Member(doc, "playstyle").str,
     relationship_level |-> Member(doc, "relationship_level").num,
     memorable_moments  |->
         LET xs == Member(doc, "memorable_moments").list
         IN  [i \in 1..Len(xs) |-> json_load_moment(xs[i].obj)],
     preferences        |->
         LET prefs == Member(doc, "preferences").obj
         IN  [likes    |-> json_load_strings(Member(prefs, "likes").list),
              dislikes |-> json_load_strings(Member(prefs, "dislikes").list)],
     total_time_played  |-> Member(doc, "total_time_played").num,
     sessions_count     |-> Member(doc, "sessions_count").num]

\* what the file system does with an open()
DiskStates == {"ok", "denied", "full"}

\* the file: absent, present but not parsable, or holding a document
NoFile == [missing |-> TRUE]
Unparsable == [unparsable |-> TRUE]

\* no profile (the history of saves is empty)
NoProfile == [none |-> TRUE]

\* mutant: the file is never read
load_always_new(f, dsk, t) == create_new_profile(t)

\* mutant: only the missing file falls back to a new profile
load_uncaught(f, dsk, t) ==
    IF f = NoFile THEN create_new_profile(t)
    ELSE IF dsk = "denied" \/ f = Unparsable THEN NoProfile
    ELSE json_load(f.doc)

\* load(): os.path.exists, then open and json.load inside try; any
\* exception (open denied, JSONDecodeError) falls back to a new profile
load(f, dsk, t) ==
    IF f = NoFile THEN create_new_profile(t)
    ELSE IF dsk = "denied" THEN create_new_profile(t)
    ELSE IF f = Unparsable THEN create_new_profile(t)
    ELSE json_load(f.doc)

\* mutant: no try / except around the write
save_uncaught(d, f, dsk) ==
    [file   |-> IF dsk = "denied" THEN f
                ELSE IF dsk = "full" THEN Unparsable
                ELSE [doc |-> json_dump(d)],
     raised |-> dsk # "ok"]

\* save(): the file after the call, and whether an exception leaves the
\* call.  open(path, 'w') raises when access is denied (the file stays as it
\* was); on a full disk open truncates the file and the write fails (the
\* file is left unparsable); either exception is caught and printed.
save(d, f, dsk) ==
    [file   |-> IF dsk = "denied" THEN f
                ELSE IF dsk = "full" THEN Unparsable
                ELSE [doc |-> json_dump(d)],
     raised |-> FALSE]

\* history of saves: the profile just saved when the file now holds its
\* document, the earlier one when the file was left alone, none otherwise
SavedAfter(d, fileAfter, fileBefore, savedBefore) ==
    IF fileAfter = [doc |-> json_dump(d)] THEN d
    ELSE IF fileAfter = fileBefore THEN savedBefore
    ELSE NoProfile

---------------------------------------------------------------------------
(* MemorySystem *)

\* mutant: every event is promoted
is_memorable_everything(event_type, details) == TRUE

\* mutant: the notable list used for the memorable one
is_memorable_notable_only(event_type, details) == event_type \in notable_types

is_memorable(event_type, details) == event_type \in memorable_types

\* the result of a call that returns None
\* the request threads of the threaded server, and a thread with no request
Threads == {1, 2}
Idle == [pc |-> "idle", turn |-> 0]

NoRet == [none |-> TRUE]

\* the outcome of a call that an exception leaves
Raised == [raised |-> TRUE]

\* a call is within the bounds of the run; same: its input is the previous one
Budget(same) ==
    /\ ops < MaxOps
    /\ IF same THEN TRUE ELSE switches < MaxSwitches
    /\ ops' = ops + 1
    /\ switches' = IF same THEN switches ELSE switches + 1

\* the first call on a buffer, or one that repeats the previous role / type
SameRole(log, role) ==
    IF log = <<>> THEN TRUE ELSE log[Len(log)].role = role
SameType(log, event_type) ==
    IF log = <<>> THEN TRUE ELSE log[Len(log)].type = event_type

Init ==
    /\ conversations = <<>>
    /\ chat_conversations = <<>>
    /\ game_events = <<>>
    /\ now = 0
    /\ session_start = 0
    /\ data = create_new_profile(0)
    /\ ret = NoRet
    /\ conv_log = <<>>
    /\ chat_log = <<>>
    /\ event_log = <<>>
    /\ ops = 0
    /\ switches = 0
    /\ file = NoFile
    /\ disk = "ok"
    /\ saved = NoProfile
    /\ closes = 0
    /\ up = TRUE
    /\ ws = "none"
    /\ memory_context = NoRet
    /\ http = FALSE
    /\ ended = 0
    /\ prompt = NoRet
    /\ last_perception_data = [text |-> "", timestamp |-> 0]
    /\ threads = [t \in Threads |-> Idle]

add_conversation ==
    \E role \in Roles, content \in Contents :
        LET t == Len(conv_log) + 1
            turn == [role |-> role, content |-> content, time |-> t]
        IN  /\ Budget(SameRole(conv_log, role))
            /\ conversations' = STM_add_conversation(conversations, role, content, t)
            /\ conv_log' = Append(conv_log, turn)
            /\ ret' = NoRet
            /\ UNCHANGED <<chat_conversations, game_events, session_start, data,
                           now, chat_log, event_log, persist, closes, serving>>

\* mutant: one merged sequence, a chat turn goes into conversations too
add_chat_message_merged ==
    \E role \in Roles, content \in Contents :
        LET t == Len(chat_log) + 1
            turn == [role |-> role, content |-> content, time |-> t]
        IN  /\ Budget(SameRole(chat_log, role))
            /\ chat_conversations' =
                   STM_add_chat_message(chat_conversations, role, content, t)
            /\ conversations' = STM_add_conversation(conversations, role, content, t)
            /\ chat_log' = Append(chat_log, turn)
            /\ ret' = NoRet
            /\ UNCHANGED <<game_events, session_start, data,
                           now, conv_log, event_log, persist, closes, serving>>

add_chat_message ==
    \E role \in Roles, content \in Contents :
        LET t == Len(chat_log) + 1
            turn == [role |-> role, content |-> content, time |-> t]
        IN  /\ Budget(SameRole(chat_log, role))
            /\ chat_conversations' =
                   STM_add_chat_message(chat_conversations, role, content, t)
            /\ chat_log' = Append(chat_log, turn)
            /\ ret' = NoRet
            /\ UNCHANGED <<conversations, game_events, session_start, data,
                           now, conv_log, event_log, persist, closes, serving>>

add_game_event ==
    \E event_type \in EventTypes, details \in Details :
        LET t == Len(event_log) + 1
            event == [type |-> event_type, details |-> details, time |-> t]
        IN  /\ Budget(SameType(event_log, event_type))
            /\ game_events' = add_event(game_events, event_type, details, t)
            /\ event_log' = Append(event_log, event)
            /\ data' = IF is_memorable(event_type, details)
                       THEN add_memory(data, event_type, details, t)
                       ELSE data
            /\ ret' = NoRet
            /\ UNCHANGED <<conversations, chat_conversations, session_start,
                           now, conv_log, chat_log, persist, closes, serving>>

get_context_for_llm ==
    /\ ret' = [short_term |-> get_summary(conversations, chat_conversations,
                                          game_events, session_start, now),
               long_term  |-> get_relevant_memories(data)]
    /\ UNCHANGED <<conversations, chat_conversations, game_events,
                   session_start, data, now, conv_log, chat_log, event_log,
                   ops, switches, persist, closes, serving>>

\* mutant: the profile is saved before the session is integrated
long_term_updated_save_first(d, f, dsk, session_summary) ==
    LET written == save(d, f, dsk)
    IN  [data   |-> integrate_session(d, session_summary),
         file   |-> written.file,
         raised |-> written.raised]

\* the profile and the file after update_long_term: integrate_session with
\* the session summary, then save
long_term_updated(d, f, dsk, session_summary) ==
    LET integrated == integrate_session(d, session_summary)
        written == save(integrated, f, dsk)
    IN  [data   |-> integrated,
         file   |-> written.file,
         raised |-> written.raised]

update_long_term ==
    LET session_summary ==
            summarize_session(conversations, game_events, session_start, now)
        after == long_term_updated(data, file, disk, session_summary)
    IN  /\ Budget(TRUE)
        /\ data' = after.data
        /\ file' = after.file
        /\ saved' = SavedAfter(after.data, after.file, file, saved)
        /\ ret' = IF after.raised THEN Raised ELSE NoRet
        /\ closes' = closes + 1
        /\ UNCHANGED <<conversations, chat_conversations, game_events,
                       session_start, now, conv_log, chat_log, event_log, disk,
                       serving>>

\* time passes between two calls
Tick ==
    /\ \E t \in Instants : t > now /\ now' = t
    /\ UNCHANGED <<conversations, chat_conversations, game_events,
                   session_start, data, ret, conv_log, chat_log, event_log,
                   ops, switches, persist, closes, serving>>

\* mutant: integrate_session writes the profile out as well
LTM_integrate_session_saving ==
    LET session_summary ==
            summarize_session(conversations, game_events, session_start, now)
        integrated == integrate_session(data, session_summary)
        written == save(integrated, file, disk)
    IN  /\ data' = integrated
        /\ file' = written.file
        /\ saved' = SavedAfter(integrated, written.file, file, saved)
        /\ ret' = NoRet
        /\ ops' = ops + 1
        /\ UNCHANGED <<conversations, chat_conversations, game_events,
                       session_start, now, conv_log, chat_log, event_log,
                       switches, disk, closes, serving>>

\* LongTermMemory.integrate_session called with the summary of the session
LTM_integrate_session ==
    LET session_summary ==
            summarize_session(conversations, game_events, session_start, now)
    IN  /\ data' = integrate_session(data, session_summary)
        /\ ret' = NoRet
        /\ ops' = ops + 1
        /\ UNCHANGED <<conversations, chat_conversations, game_events,
                       session_start, now, conv_log, chat_log, event_log,
                       switches, persist, closes, serving>>

\* LongTermMemory.save called on the profile as it is
LTM_save ==
    LET written == save(data, file, disk)
    IN  /\ file' = written.file
        /\ saved' = SavedAfter(data, written.file, file, saved)
        /\ ret' = IF written.raised THEN Raised ELSE NoRet
        /\ ops' = ops + 1
        /\ UNCHANGED <<conversations, chat_conversations, game_events,
                       session_start, data, now, conv_log, chat_log, event_log,
                       switches, disk, closes, serving>>

\* The server process starts again: memory = MemorySystem(PLAYER_ID) builds
\* an empty ShortTermMemory and a LongTermMemory whose data is load().
Restart ==
    /\ conversations' = <<>>
    /\ chat_conversations' = <<>>
    /\ game_events' = <<>>
    /\ session_start' = now
    /\ data' = load(file, disk, now)
    /\ ret' = NoRet
    /\ conv_log' = <<>>
    /\ chat_log' = <<>>
    /\ event_log' = <<>>
    /\ ops' = ops + 1
    /\ closes' = 0
    /\ UNCHANGED <<now, switches, persist, serving>>

\* the file system starts or stops refusing access, or fills up / is freed
DiskChange ==
    /\ \E dsk \in DiskStates : dsk # disk /\ disk' = dsk
    /\ ops' = ops + 1
    /\ UNCHANGED <<conversations, chat_conversations, game_events,
                   session_start, data, now, ret, conv_log, chat_log, event_log,
                   switches, file, saved, closes, serving>>

---------------------------------------------------------------------------
(* server.py: the handlers around the one module-level MemorySystem *)

\* the events a perception snapshot may carry
PerceptionEvents ==
    {[type |-> "took_damage", amount |-> 40],
     [type |-> "took_damage", amount |-> 30],
     [type |-> "reached_point", position |-> "gate"],
     [type |-> "path_blocked", reason |-> "wall"],
     [type |-> "healed", amount |-> 40]}

\* every snapshot of at most two events
Snapshots ==
    {[events |-> <<>>]}
        \cup {[events |-> <<e>>] : e \in PerceptionEvents}
        \cup {[events |-> <<e, f>>] : e \in PerceptionEvents, f \in PerceptionEvents}

\* the snapshots the clients of a run send: no event, one event, or one of
\* three pairs of events
Perceptions ==
    {[events |-> <<>>]}
        \cup {[events |-> <<e>>] : e \in PerceptionEvents}
        \cup {[events |-> <<[type |-> "took_damage", amount |-> 40],
                            [type |-> "path_blocked", reason |-> "wall"]>>],
              [events |-> <<[type |-> "path_blocked", reason |-> "wall"],
                            [type |-> "reached_point", position |-> "gate"]>>],
              [events |-> <<[type |-> "healed", amount |-> 40],
                            [type |-> "took_damage", amount |-> 40]>>]}

\* what the LLM call does: a reply that parses as a JSON object, a reply
\* that is not valid JSON, or an exception from the client
LLMOutcomes == {"json", "not_json", "error"}

damage_threshold == 30

\* mutant: >= 30 for > 30
event_call_from_thirty(event) ==
    IF event.type = "took_damage"
    THEN IF event.amount >= damage_threshold
         THEN <<[type |-> "close_call",
                 details |-> [key |-> "damage", num |-> event.amount]]>>
         ELSE <<>>
    ELSE IF event.type = "reached_point"
    THEN <<[type |-> "milestone",
            details |-> [key |-> "location", val |-> event.position]]>>
    ELSE IF event.type = "path_blocked"
    THEN <<[type |-> "obstacle",
            details |-> [key |-> "reason", val |-> event.reason]]>>
    ELSE <<>>

\* the add_game_event call check_for_events makes for one perception event
event_call(event) ==
    IF event.type = "took_damage"
    THEN IF event.amount > damage_threshold
         THEN <<[type |-> "close_call",
                 details |-> [key |-> "damage", num |-> event.amount]]>>
         ELSE <<>>
    ELSE IF event.type = "reached_point"
    THEN <<[type |-> "milestone",
            details |-> [key |-> "location", val |-> event.position]]>>
    ELSE IF event.type = "path_blocked"
    THEN <<[type |-> "obstacle",
            details |-> [key |-> "reason", val |-> event.reason]]>>
    ELSE <<>>

\* check_for_events: the add_game_event calls for a perception, in order
RECURSIVE event_calls(_)
event_calls(events) ==
    IF events = <<>> THEN <<>>
    ELSE event_call(Head(events)) \o event_calls(Tail(events))

check_for_events(perception) == event_calls(perception.events)

\* MemorySystem.add_game_event on the memory m
recorded_event(m, call) ==
    LET t == Len(m.event_log) + 1
    IN  [m EXCEPT
            !.game_events = add_event(@, call.type, call.details, t),
            !.data        = IF is_memorable(call.type, call.details)
                            THEN add_memory(@, call.type, call.details, t)
                            ELSE @,
            !.event_log   = Append(@, [type |-> call.type,
                                       details |-> call.details, time |-> t])]

RECURSIVE recorded_events(_, _)
recorded_events(m, calls) ==
    IF calls = <<>> THEN m
    ELSE recorded_events(recorded_event(m, Head(calls)), Tail(calls))

\* the game-control side of the memory a handler works on
Memory ==
    [conversations |-> conversations, conv_log |-> conv_log,
     game_events |-> game_events, data |-> data, event_log |-> event_log]

\* memory.get_context_for_llm() as the handlers call it
Context ==
    [short_term |-> get_summary(conversations, chat_conversations,
                                game_events, session_start, now),
     long_term  |-> get_relevant_memories(data)]

\* the two add_conversation calls of a handled perception
recorded_turns(m) ==
    LET t == Len(m.conv_log) + 1
        user == [role |-> "user", content |-> "text", time |-> t]
        assistant == [role |-> "assistant", content |-> "text", time |-> t + 1]
    IN  [m EXCEPT
            !.conversations =
                STM_add_conversation(
                    STM_add_conversation(@, "user", "text", t),
                    "assistant", "text", t + 1),
            !.conv_log = Append(Append(@, user), assistant)]

\* what a handler sends back
Command == [type |-> "command"]
Fallback == [type |-> "command", action |-> "hold_position"]
Reply == [reply |-> "text"]
ChatFailed == [error |-> "Chat failed", status |-> 500]
MissingText == [error |-> "Missing 'text' in payload", status |-> 400]
UnknownType == [error |-> "Unknown message type", status |-> 400]

prompt_history_len == 6
prompt_events_len == 3
prompt_commands_len == 2
prompt_likes_len == 3
stale_after == 5

\* the role and content of each turn, as the prompt builders copy them
Turns(xs) == [i \in 1..Len(xs) |-> [role |-> xs[i].role, content |-> xs[i].content]]

\* xs[:k]
FirstN(xs, k) == SubSeq(xs, 1, Min(k, Len(xs)))

\* format_memory_context: what of the context goes into the system message
format_memory_context(context) ==
    [recent_chat   |-> Turns(context.short_term.recent_chat_messages),
     recent_events |->
         LET xs == LastN(context.short_term.recent_events, prompt_events_len)
         IN  [i \in 1..Len(xs) |-> [type |-> xs[i].type, details |-> xs[i].details]],
     player_name   |-> context.long_term.player_name,
     playstyle     |-> context.long_term.playstyle,
     relationship  |-> context.long_term.relationship_level,
     sessions      |-> context.long_term.sessions_count,
     likes         |-> FirstN(context.long_term.player_preferences.likes, prompt_likes_len),
     memories      |->
         LET xs == context.long_term.last_3_memories
         IN  [i \in 1..Len(xs) |-> xs[i].summary]]

\* build_full_prompt: system message with the formatted context, the
\* context's recent conversations, then the perception as JSON
build_full_prompt(perception, context) ==
    [system    |-> [base |-> "BASE_SYSTEM_PROMPT",
                    context |-> format_memory_context(context)],
     history   |-> Turns(LastN(context.short_term.recent_conversations,
                               prompt_history_len)),
     user_json |-> perception]

\* build_text_prompt: the perception prompt with the player's last chat
\* commands, no conversation history, then the perception text
build_text_prompt(perception_text, context) ==
    [system  |-> [base |-> "PERCEPTION_PROMPT",
                  commands |->
                      LET xs == LastN(context.short_term.recent_chat_messages,
                                      prompt_commands_len)
                          said == SelectSeq(xs, LAMBDA msg : msg.role = "user")
                      IN  [i \in 1..Len(said) |-> said[i].content]],
     history |-> <<>>,
     user    |-> perception_text]

\* build_chat_prompt: the chat prompt with the formatted context and the
\* last text perception, the chat history, then the user's text
build_chat_prompt(user_text, context, chat_history, current, t) ==
    [system  |-> [base |-> "CHAT_SYSTEM_PROMPT",
                  context |-> format_memory_context(context),
                  situation |-> current.text,
                  stale |-> (current.text # "" /\ t - current.timestamp > stale_after)],
     history |-> Turns(chat_history),
     user    |-> user_text]

\* mutant: the user's turn is recorded before the LLM is called
process_with_memory_user_first(m, perception, context, llm) ==
    LET t == Len(m.conv_log) + 1
        user == [role |-> "user", content |-> "text", time |-> t]
        asked == [m EXCEPT
                     !.conversations = STM_add_conversation(@, "user", "text", t),
                     !.conv_log = Append(@, user)]
    IN  IF llm = "json"
        THEN [memory   |-> recorded_events(recorded_turns(m),
                                           check_for_events(perception)),
              response |-> Command,
              prompt   |-> build_full_prompt(perception, context)]
        ELSE [memory   |-> asked,
              response |-> Fallback,
              prompt   |-> build_full_prompt(perception, context)]

\* process_with_memory: the prompt is built and the LLM called; a reply that
\* parses is recorded as a user and an assistant turn and check_for_events
\* runs; an exception from the call or the parse gives the fallback command
process_with_memory(m, perception, context, llm) ==
    IF llm = "json"
    THEN [memory   |-> recorded_events(recorded_turns(m),
                                       check_for_events(perception)),
          response |-> Command,
          prompt   |-> build_full_prompt(perception, context)]
    ELSE [memory   |-> m,
          response |-> Fallback,
          prompt   |-> build_full_prompt(perception, context)]

\* process_text_perception: as process_with_memory, for a text perception
\* and without check_for_events
process_text_perception(m, perception_text, context, llm) ==
    IF llm = "json"
    THEN [memory   |-> recorded_turns(m),
          response |-> Command,
          prompt   |-> build_text_prompt(perception_text, context)]
    ELSE [memory   |-> m,
          response |-> Fallback,
          prompt   |-> build_text_prompt(perception_text, context)]

\* a handled perception written back to the variables
Handled(out) ==
    /\ conversations' = out.memory.conversations
    /\ conv_log' = out.memory.conv_log
    /\ game_events' = out.memory.game_events
    /\ data' = out.memory.data
    /\ event_log' = out.memory.event_log
    /\ ret' = out.response
    /\ prompt' = out.prompt

\* a perception that carries events is one of the varied inputs of a run
Varied(perception) ==
    IF perception.events = <<>>
    THEN switches' = switches
    ELSE switches < MaxSwitches /\ switches' = switches + 1

\* ai_websocket up to its receive loop: a client connects and the handler
\* reads the memory context
ws_connect ==
    /\ up
    /\ ws = "none"
    /\ ws' = "open"
    /\ memory_context' = Context
    /\ ops' = ops + 1
    /\ UNCHANGED <<conversations, chat_conversations, game_events,
                   session_start, data, now, ret, conv_log, chat_log, event_log,
                   switches, persist, closes, up, http, ended, prompt,
                   last_perception_data, threads>>

\* mutant: the context is read again for every snapshot
snapshot_context_fresh(at_connect, current) == current

\* the context process_with_memory gets for a snapshot of the connection:
\* the local memory_context, read before the receive loop
snapshot_context(at_connect, current) == at_connect

\* one pass of the receive loop.  A state_snapshot goes through
\* process_with_memory and the response is sent.  A message that is not
\* JSON, or of another type, is logged and the loop goes on.
ws_message ==
    /\ up
    /\ ws = "open"
    /\ ops' = ops + 1
    /\ \/ \E perception \in Perceptions, llm \in LLMOutcomes :
            /\ Varied(perception)
            /\ Handled(process_with_memory(
                           Memory, perception,
                           snapshot_context(memory_context, Context), llm))
       \/ /\ ret' = NoRet
          /\ UNCHANGED <<conversations, conv_log, game_events, data, event_log,
                         switches, prompt>>
    /\ UNCHANGED <<chat_conversations, session_start, now, chat_log,
                   persist, closes, up, ws, memory_context, http, ended,
                   last_perception_data, threads>>

\* the receive loop ends, by a close (receive returns nothing) or by a
\* transport error (receive raises): either way the finally clause runs
\* update_long_term
ws_disconnect ==
    LET session_summary ==
            summarize_session(conversations, game_events, session_start, now)
        after == long_term_updated(data, file, disk, session_summary)
    IN  /\ up
        /\ ws = "open"
        /\ ws' = "none"
        /\ memory_context' = NoRet
        /\ data' = after.data
        /\ file' = after.file
        /\ saved' = SavedAfter(after.data, after.file, file, saved)
        /\ closes' = closes + 1
        /\ ended' = ended + 1
        /\ ret' = IF after.raised THEN Raised ELSE NoRet
        /\ ops' = ops + 1
        /\ UNCHANGED <<conversations, chat_conversations, game_events,
                       session_start, now, conv_log, chat_log, event_log,
                       switches, disk, up, http, prompt, last_perception_data,
                       threads>>

\* POST /perceive.  A text perception is stored in last_perception_data and
\* goes through process_text_perception with the context read for this
\* request; a legacy state_snapshot goes through process_with_memory; any
\* other type is answered 400.
perceive ==
    /\ up
    /\ http' = TRUE
    /\ ops' = ops + 1
    /\ \/ \E llm \in LLMOutcomes :
            /\ last_perception_data' = [text |-> "text", timestamp |-> now]
            /\ switches' = switches
            /\ Handled(process_text_perception(Memory, "text", Context, llm))
       \/ \E perception \in Perceptions, llm \in LLMOutcomes :
            /\ Varied(perception)
            /\ Handled(process_with_memory(Memory, perception, Context, llm))
            /\ UNCHANGED last_perception_data
       \/ /\ ret' = UnknownType
          /\ UNCHANGED <<conversations, conv_log, game_events, data, event_log,
                         switches, prompt, last_perception_data>>
    /\ UNCHANGED <<chat_conversations, session_start, now, chat_log,
                   persist, closes, up, ws, memory_context, ended, threads>>

\* the texts a /chat payload may carry
ChatTexts == {"", "text"}

\* mutant: the user's turn is recorded only together with the reply
chat_handled_reply_first(chats, log, text, context, current, t, llm) ==
    LET n == Len(log) + 1
        user == [role |-> "user", content |-> text, time |-> n]
        assistant == [role |-> "assistant", content |-> "text", time |-> n + 1]
        asked == STM_add_chat_message(chats, "user", text, n)
        messages == build_chat_prompt(text, context, get_chat_history(chats),
                                      current, t)
    IN  IF text = ""
        THEN [chat_conversations |-> chats, chat_log |-> log,
              response |-> MissingText, called |-> FALSE, prompt |-> NoRet]
        ELSE IF llm = "error"
        THEN [chat_conversations |-> chats, chat_log |-> log,
              response |-> ChatFailed, called |-> TRUE, prompt |-> messages]
        ELSE [chat_conversations |->
                  STM_add_chat_message(asked, "assistant", "text", n + 1),
              chat_log |-> Append(Append(log, user), assistant),
              response |-> Reply, called |-> TRUE, prompt |-> messages]

\* chat: an empty text is answered 400.  Otherwise the user's turn is
\* recorded, the context and the chat history are read (the history holds
\* the turn just recorded) and the LLM is called: its reply, whatever text it
\* is, is recorded as the assistant's turn; an exception is answered 500.
chat_handled(chats, log, text, context, current, t, llm) ==
    LET n == Len(log) + 1
        user == [role |-> "user", content |-> text, time |-> n]
        assistant == [role |-> "assistant", content |-> "text", time |-> n + 1]
        asked == STM_add_chat_message(chats, "user", text, n)
        messages == build_chat_prompt(text, context, get_chat_history(asked),
                                      current, t)
    IN  IF text = ""
        THEN [chat_conversations |-> chats, chat_log |-> log,
              response |-> MissingText, called |-> FALSE, prompt |-> NoRet]
        ELSE IF llm = "error"
        THEN [chat_conversations |-> asked, chat_log |-> Append(log, user),
              response |-> ChatFailed, called |-> TRUE, prompt |-> messages]
        ELSE [chat_conversations |->
                  STM_add_chat_message(asked, "assistant", "text", n + 1),
              chat_log |-> Append(Append(log, user), assistant),
              response |-> Reply, called |-> TRUE, prompt |-> messages]

\* POST /chat
chat ==
    \E text \in ChatTexts, llm \in LLMOutcomes :
        LET n == Len(chat_log) + 1
            asked == STM_add_chat_message(chat_conversations, "user", text, n)
            context ==
                [short_term |-> get_summary(conversations,
                                            IF text = "" THEN chat_conversations
                                            ELSE asked,
                                            game_events, session_start, now),
                 long_term  |-> get_relevant_memories(data)]
            out == chat_handled(chat_conversations, chat_log, text, context,
                                last_perception_data, now, llm)
        IN  /\ up
            /\ ops' = ops + 1
            /\ chat_conversations' = out.chat_conversations
            /\ chat_log' = out.chat_log
            /\ ret' = out.response
            /\ prompt' = IF out.called THEN out.prompt ELSE prompt
            /\ UNCHANGED <<conversations, game_events, session_start, data, now,
                           conv_log, event_log, switches, persist, closes,
                           up, ws, memory_context, http, ended,
                           last_perception_data, threads>>

\* The process stops with no connection open: app.run returns and no code
\* runs after it.  The session of a game client that used /perceive ends
\* here.
Shutdown ==
    /\ up
    /\ ws = "none"
    /\ up' = FALSE
    /\ ended' = ended + (IF http THEN 1 ELSE 0)
    /\ UNCHANGED <<conversations, chat_conversations, game_events,
                   session_start, data, now, ret, conv_log, chat_log, event_log,
                   ops, switches, persist, closes, ws, memory_context, http,
                   prompt, last_perception_data, threads>>

\* The recording interface: what the handlers call while a session runs.
Next ==
    \/ add_conversation
    \/ add_chat_message
    \/ add_game_event
    \/ get_context_for_llm

Spec == Init /\ [][Next]_vars

\* Session ends: events are recorded, time passes, update_long_term runs
\* (any number of times: the MemorySystem outlives the connection).
NextSession ==
    \/ add_game_event
    \/ Tick
    \/ update_long_term

SpecSession == Init /\ [][NextSession]_vars

\* The profile and its file across sessions and process starts, over runs of
\* at most MaxStoreOps calls.
NextStore ==
    \/ ops < MaxStoreOps /\ add_game_event
    \/ ops < MaxStoreOps /\ update_long_term
    \/ ops < MaxStoreOps /\ LTM_integrate_session
    \/ ops < MaxStoreOps /\ LTM_save
    \/ ops < MaxStoreOps /\ Restart
    \/ ops < MaxStoreOps /\ DiskChange
    \/ Tick

SpecStore == Init /\ [][NextStore]_vars

\* The server: connections, requests and the end of the process, over runs
\* of at most MaxRequests handler steps.
NextServer ==
    \/ ops < MaxRequests /\ ws_connect
    \/ ops < MaxRequests /\ ws_message
    \/ ops < MaxRequests /\ ws_disconnect
    \/ ops < MaxRequests /\ perceive
    \/ ops < MaxRequests /\ chat
    \/ Shutdown

SpecServer == Init /\ [][NextServer]_vars

----------------------------------------------------------------------------
(* The request threads.  app.run serves every request in a thread of its
   own, and the handlers share the module-level memory with no lock: the
   steps below are the points of add_conversation between which another
   thread may run. *)

\* the turn a thread is about to append
ThreadTurn(t) ==
    [role    |-> IF threads[t].pc = "user_append" THEN "user" ELSE "assistant",
     content |-> "text",
     time    |-> Len(conv_log) + 1]

\* POST /perceive with a text perception, up to the reply of the LLM: the
\* perception is stored, the context read, the prompt built and the LLM
\* called; its reply parses
perceive_received(t) ==
    /\ up
    /\ threads[t].pc = "idle"
    /\ ops < MaxThreadRequests
    /\ ops' = ops + 1
    /\ http' = TRUE
    /\ last_perception_data' = [text |-> "text", timestamp |-> now]
    /\ prompt' = build_text_prompt("text", Context)
    /\ threads' = [threads EXCEPT ![t] = [pc |-> "user_append", turn |-> 0]]
    /\ UNCHANGED <<conversations, chat_conversations, game_events,
                   session_start, data, now, ret, conv_log, chat_log, event_log,
                   switches, persist, closes, up, ws, memory_context, ended>>

\* add_conversation, first statement: the turn is appended
add_conversation_append(t) ==
    /\ threads[t].pc \in {"user_append", "assistant_append"}
    /\ conversations' = Append(conversations, ThreadTurn(t))
    /\ conv_log' = Append(conv_log, ThreadTurn(t))
    /\ threads' = [threads EXCEPT ![t] =
                      IF threads[t].pc = "user_append"
                      THEN [pc |-> "user_evict", turn |-> ThreadTurn(t).time]
                      ELSE [@ EXCEPT !.pc = "assistant_evict"]]
    /\ UNCHANGED <<chat_conversations, game_events, session_start, data, now,
                   ret, chat_log, event_log, ops, switches, persist, closes,
                   up, ws, memory_context, http, ended, prompt,
                   last_perception_data>>

\* add_conversation, second statement: the oldest turn is dropped if the
\* buffer is over its size
add_conversation_evict(t) ==
    /\ threads[t].pc \in {"user_evict", "assistant_evict"}
    /\ conversations' = IF Len(conversations) > max_conversations
                        THEN Tail(conversations)
                        ELSE conversations
    /\ threads' = [threads EXCEPT ![t].pc =
                      IF @ = "user_evict" THEN "assistant_append" ELSE "respond"]
    /\ UNCHANGED <<chat_conversations, game_events, session_start, data, now,
                   ret, conv_log, chat_log, event_log, ops, switches, persist,
                   closes, up, ws, memory_context, http, ended, prompt,
                   last_perception_data>>

\* process_text_perception returns the command and perceive sends it
perceive_responded(t) ==
    /\ threads[t].pc = "respond"
    /\ ret' = Command
    /\ threads' = [threads EXCEPT ![t] = Idle]
    /\ UNCHANGED <<conversations, chat_conversations, game_events,
                   session_start, data, now, conv_log, chat_log, event_log,
                   ops, switches, persist, closes, up, ws, memory_context,
                   http, ended, prompt, last_perception_data>>

\* Two threads handle /perceive requests while a third caller reads the
\* context, in a run of at most MaxThreadRequests requests.
NextThreads ==
    \/ \E t \in Threads : perceive_received(t)
    \/ \E t \in Threads : add_conversation_append(t)
    \/ \E t \in Threads : add_conversation_evict(t)
    \/ \E t \in Threads : perceive_responded(t)
    \/ get_context_for_llm

SpecThreads == Init /\ [][NextThreads]_vars

---------------------------------------------------------------------------
(* Properties *)

\* the last Min(k, Len(log)) entries of log, in order, stated by position
IsRecent(buf, log, k) ==
    /\ Len(buf) = (IF Len(log) < k THEN Len(log) ELSE k)
    /\ \A i \in 1..Len(buf) : buf[i] = log[Len(log) - Len(buf) + i]

\* the allow-list of the memorability policy, as the specification gives it
AllowList == {"close_call", "victory", "defeat", "milestone",
              "funny_moment", "first_time", "achievement"}

\* the events recorded so far whose type is on the allow-list
MemorableLogged == SelectSeq(event_log, LAMBDA e : e.type \in AllowList)

\* what identifies an event (a moment): its stamp and its type
EventIds(events) == [i \in 1..Len(events) |-> <<events[i].time, events[i].type>>]
MomentIds(moments) == [i \in 1..Len(moments) |-> <<moments[i].date, moments[i].type>>]

\* a step that recorded one more game event
EventRecorded == Len(event_log') = Len(event_log) + 1

\* C1: after any sequence of add_conversation, add_chat_message and add_event
\* calls each of the three buffers holds at most 10 entries, and they are
\* exactly the most recently inserted ones, in insertion order.
C1_BuffersHoldTheLastTen ==
    /\ Len(conversations) <= 10
    /\ Len(chat_conversations) <= 10
    /\ Len(game_events) <= 10
    /\ IsRecent(conversations, conv_log, 10)
    /\ IsRecent(chat_conversations, chat_log, 10)
    /\ IsRecent(game_events, event_log, 10)

\* the conversation buffer has evicted its oldest turn, with turns of both
\* roles recorded
C1_Witness ==
    /\ Len(conv_log) = 11
    /\ Len(conversations) = 10
    /\ conversations[1].time = 2
    /\ conv_log[1].role # conv_log[11].role

\* C2: for every sequence of n add_conversation calls, get_summary() returns
\* as recent_conversations exactly the min(5, n) most recently recorded
\* game-control turns, in arrival order.
C2_SummaryHoldsTheLastFive ==
    ret # NoRet =>
        IsRecent(ret.short_term.recent_conversations, conv_log, 5)

\* a context read after 11 turns: the summary is turns 7..11
C2_Witness ==
    /\ ret # NoRet
    /\ Len(conv_log) = 11
    /\ Len(ret.short_term.recent_conversations) = 5
    /\ ret.short_term.recent_conversations[1].time = 7

\* C3: when every recorded event type is on the allow-list, each
\* add_game_event call has appended exactly one MemorableMoment:
\* memorable_moments holds at most 10 entries, and they are the moments of
\* the most recent events, in order (the oldest one is evicted).
C3_MemorableEventsBecomeMoments ==
    (\A i \in 1..Len(event_log) : event_log[i].type \in AllowList) =>
        /\ Len(data.memorable_moments) <= 10
        /\ IsRecent(MomentIds(data.memorable_moments), EventIds(event_log), 10)

\* 11 memorable events of two types: the moments are those of events 2..11
C3_Witness ==
    /\ Len(event_log) = 11
    /\ \A i \in 1..11 : event_log[i].type \in AllowList
    /\ event_log[1].type # event_log[11].type
    /\ Len(data.memorable_moments) = 10
    /\ data.memorable_moments[1].date = 2

\* C4: an add_game_event call whose type is outside the allow-list leaves
\* every field of the profile as it was, so a sequence of such calls does.
C4_OtherEventsLeaveTheProfile ==
    [][(EventRecorded /\ event_log'[Len(event_log')].type \notin AllowList)
          => data' = data]_vars

\* three events outside the allow-list recorded after a memorable one
C4_Witness ==
    /\ Len(event_log) = 4
    /\ event_log[1].type \in AllowList
    /\ \A i \in 2..4 : event_log[i].type \notin AllowList
    /\ Len(data.memorable_moments) = 1
    /\ Len(game_events) = 4

\* C5: add_game_event appends the event to game_events whatever its type,
\* and promotes it to memorable_moments iff the type is on the allow-list.
C5_RecordedAlwaysPromotedIffMemorable ==
    [][EventRecorded =>
          LET e == event_log'[Len(event_log')]
              before == MomentIds(data.memorable_moments)
              after == MomentIds(data'.memorable_moments)
              promoted == /\ after # <<>>
                          /\ after[Len(after)] = <<e.time, e.type>>
                          /\ after # before
          IN  /\ game_events' # <<>>
              /\ game_events'[Len(game_events')] = e
              /\ promoted <=> e.type \in AllowList
              /\ ~promoted => data' = data]_vars

\* an event outside the allow-list followed by a memorable one: both are in
\* game_events, only the second is a moment
C5_Witness ==
    /\ Len(event_log) = 2
    /\ event_log[1].type \notin AllowList
    /\ event_log[2].type \in AllowList
    /\ Len(game_events) = 2
    /\ MomentIds(data.memorable_moments) = <<<<2, event_log[2].type>>>>

\* the number of events in the event buffer that summarize_session reports
\* as notable, counted by position
NotableCount ==
    Cardinality({i \in 1..Len(game_events) :
                    game_events[i].type \in {"close_call", "victory", "milestone"}})

\* the duration a session summary made now would report
SessionDuration == now - session_start

\* C6: the profile starts freshly created; in every reachable state its
\* relationship_level is an integer in [1, 10], and one integrate_session
\* call raises it by at most 1 and never lowers it.
C6_RelationshipLevelBounded ==
    /\ data.relationship_level \in 1..10
    /\ [][/\ data'.relationship_level \in 1..10
          /\ data'.relationship_level >= data.relationship_level
          /\ data'.relationship_level <= data.relationship_level + 1]_vars

\* ten sessions of 700 seconds each: the tenth found the level at 10
C6_Witness ==
    /\ data.sessions_count = 10
    /\ data.total_time_played = 7000
    /\ data.relationship_level = 10

C8_PlaystyleFromNotableCount ==
    [][update_long_term =>
          data'.playstyle =
              IF NotableCount > 5 THEN "aggressive"
              ELSE IF NotableCount > 2 THEN "balanced"
              ELSE "tactical"]_vars

\* three sessions ended with 0, then 5, then 6 notable events in the buffer
\* (the second with one more event that is not notable): the playstyle went
\* from tactical over balanced to aggressive
C8_Witness ==
    /\ data.sessions_count = 3
    /\ data.playstyle = "aggressive"
    /\ NotableCount = 6
    /\ Len(game_events) = 7
    /\ data.total_time_played = 0

\* C9: get_relevant_memories() returns at most 3 moments for any number of
\* stored moments, and they are the most recently added ones, in order.
C9_RelevantMemoriesAreTheLastThree ==
    ret # NoRet =>
        /\ Len(ret.long_term.last_3_memories) <= 3
        /\ IsRecent(ret.long_term.last_3_memories, data.memorable_moments, 3)
        /\ IsRecent(MomentIds(ret.long_term.last_3_memories),
                    EventIds(MemorableLogged), 3)

\* a context read with 10 moments stored, after 11 memorable events
C9_Witness ==
    /\ ret # NoRet
    /\ Len(MemorableLogged) = 11
    /\ Len(data.memorable_moments) = 10
    /\ MomentIds(ret.long_term.last_3_memories)[1][1] = 9

\* C10: get_context_for_llm() changes neither tier, and the context it
\* returns exposes at most 5 game-control turns, 3 chat turns, 5 events and
\* 3 memorable moments.
C10_ContextIsBoundedAndReadOnly ==
    [][ret' # NoRet =>
          /\ UNCHANGED <<conversations, chat_conversations, game_events,
                         session_start, data>>
          /\ Len(ret'.short_term.recent_conversations) <= 5
          /\ Len(ret'.short_term.recent_chat_messages) <= 3
          /\ Len(ret'.short_term.recent_events) <= 5
          /\ Len(ret'.long_term.last_3_memories) <= 3]_vars

\* a context read when the conversation and chat buffers hold more than the
\* context exposes
C10_Witness ==
    /\ ret # NoRet
    /\ Len(conversations) = 6
    /\ Len(chat_conversations) = 5
    /\ Len(ret.short_term.recent_conversations) = 5
    /\ Len(ret.short_term.recent_chat_messages) = 3

---------------------------------------------------------------------------
(* Persistence: the profile and its file *)

\* the summary update_long_term hands to integrate_session
SessionSummary ==
    summarize_session(conversations, game_events, session_start, now)

\* a step that calls save()
SaveCalled == LTM_save \/ update_long_term

\* the four fields a player never seen starts with
IsFirstMeeting(d) ==
    /\ d.relationship_level = 1
    /\ d.sessions_count = 0
    /\ d.playstyle = "unknown"
    /\ d.memorable_moments = <<>>

\* C11: a successful save() followed by load() for the same player, with
\* nothing written to the file in between, yields the profile that was
\* saved, field for field: right after the save a load would return the
\* in-memory profile, and a later process start loads the saved one.
C11_SaveThenLoadRoundTrips ==
    /\ [][(SaveCalled /\ disk = "ok") => load(file', disk', now') = data']_vars
    /\ [][(Restart /\ saved # NoProfile /\ disk # "denied") => data' = saved]_vars

\* a profile with a moment and two sessions came back from the file
C11_Witness ==
    /\ saved # NoProfile
    /\ data = saved
    /\ session_start > 0
    /\ data.sessions_count = 2
    /\ Len(data.memorable_moments) = 1
    /\ data.total_time_played = 600

\* C12: a LongTermMemory created for a player with no persisted file has
\* relationship_level 1, sessions_count 0, playstyle unknown and no
\* memorable moments.
C12_NoFileGivesFirstMeeting ==
    /\ (file = NoFile => IsFirstMeeting(data))
    /\ [][(Restart /\ file = NoFile) => IsFirstMeeting(data')]_vars

\* a process start at time 600 found no file and created the profile then
C12_Witness ==
    /\ file = NoFile
    /\ data.created_at = 600
    /\ IsFirstMeeting(data)

\* C13: load() never raises: with the file missing, unreadable or
\* unparsable it returns a newly created default profile, and the
\* construction of the memory completes.
C13_LoadFallsBackToNewProfile ==
    [][(Restart /\ (file = NoFile \/ file = Unparsable \/ disk = "denied"))
          => (data' = create_new_profile(now) /\ ret' = NoRet)]_vars

\* a process start that found an unparsable file
C13_Witness ==
    /\ file = Unparsable
    /\ data.created_at > 0
    /\ data = create_new_profile(data.created_at)

\* C14: save() never raises: when the write fails the call returns
\* normally and the in-memory profile is what it was before the save (in
\* update_long_term: the profile with the session integrated).
C14_FailedSaveReturnsNormally ==
    /\ [][(LTM_save /\ disk # "ok") => (ret' = NoRet /\ data' = data)]_vars
    /\ [][(update_long_term /\ disk # "ok")
            => (ret' = NoRet /\ data' = integrate_session(data, SessionSummary))]_vars

\* a save on a full disk returned; the profile holds a moment and a session
C14_Witness ==
    /\ disk = "full"
    /\ file = Unparsable
    /\ ret = NoRet
    /\ data.sessions_count = 1
    /\ Len(data.memorable_moments) = 1

\* C15: integrate_session changes the in-memory profile only: the file is
\* as it was, so a file that held the profile before the call no longer
\* holds the profile after it, and the file changes only in a step that
\* calls save().
C15_IntegrateLeavesTheFile ==
    /\ [][LTM_integrate_session
            => /\ file' = file
               /\ data' # data
               /\ (file = [doc |-> json_dump(data)]
                      => file' # [doc |-> json_dump(data')])]_vars
    /\ [][(file' # file) => SaveCalled]_vars

\* the file holds the profile of one session while the profile in memory
\* counts three
C15_Witness ==
    /\ disk = "ok"
    /\ saved # NoProfile
    /\ file = [doc |-> json_dump(saved)]
    /\ saved.sessions_count = 1
    /\ data.sessions_count = 3

\* C16: update_long_term summarizes the session, integrates that summary
\* and then saves: the profile on return is the old one with the session
\* integrated, and when the save succeeds the file holds exactly that
\* profile.
C16_UpdateIntegratesThenSaves ==
    [][update_long_term =>
          /\ data' = integrate_session(data, SessionSummary)
          /\ (disk = "ok" =>
                 /\ file' = [doc |-> json_dump(data')]
                 /\ json_load(file'.doc) = data')]_vars

\* the file holds the profile after a second update, the long one, with a
\* moment
C16_Witness ==
    /\ file = [doc |-> json_dump(data)]
    /\ ret = NoRet
    /\ data.sessions_count = 2
    /\ data.relationship_level = 2
    /\ data.total_time_played = 700
    /\ Len(data.memorable_moments) = 1

\* C20: update_long_term is not idempotent: every invocation, a repeated
\* one on the same session included, adds 1 to sessions_count and adds the
\* session duration to total_time_played again, so after n invocations on a
\* new profile sessions_count is n.
C20_EveryUpdateCountsAgain ==
    /\ [][update_long_term =>
            /\ data'.sessions_count = data.sessions_count + 1
            /\ data'.total_time_played = data.total_time_played + SessionDuration
            /\ data' # data]_vars
    /\ [](data.sessions_count = closes)

\* two invocations at the end of one 700 second session: it is counted
\* twice and its duration is added twice
C20_Witness ==
    /\ session_start = 0
    /\ now = 700
    /\ data.sessions_count = 2
    /\ data.total_time_played = 1400

---------------------------------------------------------------------------
(* Sessions: connect, disconnect and the end of the process *)

\* C17: for every session update_long_term is invoked exactly once when the
\* session ends, however it ends: at any moment the number of invocations
\* equals the number of sessions that have ended.
C17_EverySessionClosedOnce == closes = ended

\* C18: once update_long_term has run the session is closed: no later
\* add_conversation, add_chat_message or add_game_event call changes the
\* buffers, and no handler that makes such a call completes as if it had
\* been accepted.
C18_ClosedSessionRejectsRecords ==
    [][closes > 0 =>
          /\ UNCHANGED <<conversations, chat_conversations, game_events>>
          /\ ret' \notin {Command, Reply}]_vars

\* C19: the short-term buffers belong to one session: a connection made
\* after an earlier session closed starts with empty conversation, chat and
\* event buffers and with session_start at the time of the connect.
C19_SessionStartsWithEmptyBuffers ==
    [][(ws_connect /\ closes > 0) =>
          /\ conversations' = <<>>
          /\ chat_conversations' = <<>>
          /\ game_events' = <<>>
          /\ session_start' = now']_vars

---------------------------------------------------------------------------
(* The two sequences, the session summary and the moment summaries *)

\* C21: the game-control sequence and the chat-only sequence are disjoint:
\* a step that records a game-control turn leaves chat_conversations as it
\* was, a step that records a chat turn leaves conversations as it was, and
\* each buffer holds turns of its own log only, in the order recorded.
C21_TheTwoSequencesAreDisjoint ==
    /\ [][(conv_log' # conv_log) =>
            (chat_conversations' = chat_conversations /\ chat_log' = chat_log)]_vars
    /\ [][(chat_log' # chat_log) =>
            (conversations' = conversations /\ conv_log' = conv_log)]_vars
    /\ [](/\ IsRecent(conversations, conv_log, Len(conversations))
          /\ IsRecent(chat_conversations, chat_log, Len(chat_conversations)))

\* three game-control turns and two chat turns, each in its own buffer
C21_Witness ==
    /\ Len(conv_log) = 3
    /\ Len(chat_log) = 2
    /\ conversations = conv_log
    /\ chat_conversations = chat_log
    /\ conv_log[3].role # chat_log[2].role

\* the positions of the buffered events of a notable type
NotablePositions ==
    {i \in 1..Len(game_events) :
        game_events[i].type \in {"close_call", "victory", "milestone"}}

\* the k-th smallest member of a set of positions
Kth(S, k) == CHOOSE i \in S : Cardinality({j \in S : j <= i}) = k

\* C23: summarize_session returns as notable_events exactly the buffered
\* events of type close_call, victory or milestone, in buffer order, and
\* conversation_count and event_count are the current lengths of the two
\* buffers, each at most 10.
C23_SummaryOfTheSession ==
    LET summary == summarize_session(conversations, game_events, session_start, now)
    IN  /\ Len(summary.notable_events) = Cardinality(NotablePositions)
        /\ \A k \in 1..Len(summary.notable_events) :
               summary.notable_events[k] = game_events[Kth(NotablePositions, k)]
        /\ summary.conversation_count = Len(conversations)
        /\ summary.event_count = Len(game_events)
        /\ summary.conversation_count <= 10
        /\ summary.event_count <= 10

\* a buffer of five events, achievements first and then victories, beside a
\* conversation buffer in use: two of the five are notable
C23_Witness ==
    /\ Len(game_events) = 5
    /\ game_events[1].type = "achievement"
    /\ Cardinality(NotablePositions) = 2
    /\ Len(conversations) = 2

\* the static lookup of _summarize_event
LookupText ==
    [close_call   |-> "Had a close call in combat",
     victory      |-> "Achieved victory together",
     defeat       |-> "Faced defeat but learned from it",
     milestone    |-> "Reached an important milestone",
     funny_moment |-> "Shared a funny moment",
     first_time   |-> "First time experience"]

\* C24: the summary of a memorable moment is the fixed text of the lookup
\* when the event type is one of its tags and the stringified details
\* otherwise; an achievement is stored with its stringified details.
C24_MomentSummaries ==
    \A i \in 1..Len(data.memorable_moments) :
        LET moment == data.memorable_moments[i]
            event == event_log[moment.date]
        IN  /\ moment.type = event.type
            /\ moment.summary =
                   IF moment.type \in DOMAIN LookupText
                   THEN LookupText[moment.type]
                   ELSE str(event.details)
            /\ (moment.type = "achievement" => moment.summary = "{'reason': 'wall'}")

\* a victory followed by an achievement, both stored
C24_Witness ==
    /\ Len(data.memorable_moments) = 2
    /\ data.memorable_moments[1].type = "victory"
    /\ data.memorable_moments[2].type = "achievement"
    /\ data.memorable_moments[2].summary = "{'reason': 'wall'}"

\* a step that calls integrate_session
IntegrateCalled == LTM_integrate_session \/ update_long_term

\* C29: playstyle is unknown only for a profile with no session
\* integrated: every integrate_session call leaves it tactical, balanced or
\* aggressive, and a profile with a session counted is never unknown, also
\* after it has been saved and loaded again.
C29_PlaystyleUnknownOnlyBeforeFirstSession ==
    /\ [][IntegrateCalled =>
            data'.playstyle \in {"tactical", "balanced", "aggressive"}]_vars
    /\ [](data.playstyle = "unknown" <=> data.sessions_count = 0)

\* a profile that came back from the file with one session has had a second
\* session without notable events integrated
C29_Witness ==
    /\ session_start > 0
    /\ closes = 1
    /\ data.sessions_count = 2
    /\ data.playstyle = "tactical"

----------------------------------------------------------------------------
(* The perception and chat handlers around the LLM call *)

\* the LLM outcomes that make a perception handler give up
FailedOutcomes == {"not_json", "error"}

\* C25: when the LLM call fails or its reply is not valid JSON,
\* process_with_memory and process_text_perception return the fallback
\* hold_position command and record no conversation turn: in every
\* reachable state a failed request leaves the memory as it is, and every
\* step that answers with the fallback leaves the game-control buffer as it
\* was before the request.
C25_FailedRequestRecordsNothing ==
    /\ [](\A llm \in FailedOutcomes :
            /\ \A perception \in Snapshots :
                 LET out == process_with_memory(Memory, perception, Context, llm)
                 IN  out.response = Fallback /\ out.memory = Memory
            /\ LET out == process_text_perception(Memory, "text", Context, llm)
               IN  out.response = Fallback /\ out.memory = Memory)
    /\ [][ret' = Fallback =>
             conversations' = conversations /\ conv_log' = conv_log]_vars

\* a request failed after an earlier one had been recorded
C25_Witness ==
    /\ ret = Fallback
    /\ Len(conversations) = 2
    /\ conversations[2].role = "assistant"
    /\ prompt # NoRet
    /\ prompt.history # <<>>

\* the turn a /chat request records for its user, and for its reply
ChatUserTurn == [role |-> "user", content |-> "text", time |-> Len(chat_log) + 1]
ChatReplyTurn == [role |-> "assistant", content |-> "text", time |-> Len(chat_log) + 2]

\* C27: in the /chat handler the user's message is recorded in the chat-only
\* buffer before the LLM is called and the assistant reply only after the
\* call succeeds: the history sent to the LLM ends with the user's turn; a
\* request whose LLM call fails is answered with an error of status 500 and
\* adds the user's turn alone, which is then the last turn of the buffer; a
\* request that is answered with a reply adds the user turn and then the
\* assistant turn.
C27_ChatRecordsUserBeforeTheCall ==
    /\ [](LET out == chat_handled(chat_conversations, chat_log, "text", Context,
                                  last_perception_data, now, "error")
          IN  /\ out.response = ChatFailed
              /\ out.response.status = 500
              /\ out.chat_log = Append(chat_log, ChatUserTurn)
              /\ out.chat_conversations[Len(out.chat_conversations)] = ChatUserTurn)
    /\ [][(chat /\ prompt' # prompt) =>
             /\ prompt'.history # <<>>
             /\ prompt'.history[Len(prompt'.history)]
                    = [role |-> "user", content |-> "text"]]_vars
    /\ [][(chat /\ ret' = ChatFailed) =>
             /\ chat_log' = Append(chat_log, ChatUserTurn)
             /\ chat_conversations'[Len(chat_conversations')] = ChatUserTurn]_vars
    /\ [][(chat /\ ret' = Reply) =>
             /\ chat_log' = Append(Append(chat_log, ChatUserTurn), ChatReplyTurn)
             /\ chat_conversations'[Len(chat_conversations')] = ChatReplyTurn]_vars

\* a chat request failed after an earlier one had been answered
C27_Witness ==
    /\ ret = ChatFailed
    /\ Len(chat_log) = 3
    /\ chat_conversations[2].role = "assistant"
    /\ chat_conversations[3].role = "user"

\* a pass of the receive loop that handled a state_snapshot
SnapshotHandled == ws_message /\ ret' \in {Command, Fallback}

\* the stamps of the turns, and of the events, a context holds
ContextTurnStamps(context) ==
    {context.short_term.recent_conversations[i].time :
        i \in 1..Len(context.short_term.recent_conversations)}
ContextEventStamps(context) ==
    {context.short_term.recent_events[i].time :
        i \in 1..Len(context.short_term.recent_events)}
        \cup {context.long_term.last_3_memories[i].date :
                i \in 1..Len(context.long_term.last_3_memories)}

\* C28: within one WebSocket connection the memory context is read once at
\* connect and reused for every message: the context of an open connection
\* is the one read at connect, the prompt of every state_snapshot of the
\* connection is built from it, and it holds none of the turns or events
\* recorded for the snapshots of the connection.
C28_ContextReadOnceAtConnect ==
    /\ [][ws_connect => memory_context' = Context]_vars
    /\ [][(ws = "open" /\ ws' = "open") => memory_context' = memory_context]_vars
    /\ [][SnapshotHandled =>
             /\ \E perception \in Perceptions :
                    prompt' = build_full_prompt(perception, memory_context)
             /\ \A i \in (Len(conv_log) + 1)..Len(conv_log') :
                    i \notin ContextTurnStamps(memory_context')
             /\ \A i \in (Len(event_log) + 1)..Len(event_log') :
                    i \notin ContextEventStamps(memory_context')]_vars

\* the second snapshot of a connection made with an empty memory: the first
\* one was recorded, with a close call, and the prompt has no history
C28_Witness ==
    /\ ws = "open"
    /\ ret = Command
    /\ Len(conv_log) = 4
    /\ Len(event_log) = 1
    /\ memory_context.short_term.recent_conversations = <<>>
    /\ prompt.history = <<>>
    /\ prompt.system.context.recent_events = <<>>

----------------------------------------------------------------------------
(* The events of a legacy perception *)

\* the game event the claim gives for one perception event, or "nothing"
ExpectedEvent(event) ==
    IF event.type = "took_damage" /\ event.amount > 30 THEN "close_call"
    ELSE IF event.type = "reached_point" THEN "milestone"
    ELSE IF event.type = "path_blocked" THEN "obstacle"
    ELSE "nothing"

ExpectedEvents(events) ==
    SelectSeq([i \in 1..Len(events) |-> ExpectedEvent(events[i])],
              LAMBDA type : type # "nothing")

\* the types of the events logged after the first n
TypesAfter(log, n) == [i \in 1..(Len(log) - n) |-> log[n + i].type]

\* the types of the moments of d whose event was logged after the first n
MomentTypesAfter(d, n) ==
    LET new == SelectSeq(d.memorable_moments, LAMBDA moment : moment.date > n)
    IN  [i \in 1..Len(new) |-> new[i].type]

\* what a handled perception has recorded matches the claim: the events
\* logged and held in the event buffer are the expected ones in order, and
\* the new moments are the close calls and milestones among them
EventsAsExpected(perception, before, after) ==
    LET n == Len(before.event_log)
        expected == ExpectedEvents(perception.events)
        held == SelectSeq(after.game_events, LAMBDA event : event.time > n)
    IN  /\ TypesAfter(after.event_log, n) = expected
        /\ [i \in 1..Len(held) |-> held[i].type] = expected
        /\ MomentTypesAfter(after.data, n)
               = SelectSeq(expected,
                           LAMBDA type : type \in {"close_call", "milestone"})
        /\ \A i \in 1..Len(after.data.memorable_moments) :
               after.data.memorable_moments[i].type # "obstacle"

\* C30: check_for_events records, for each event of a legacy perception in
\* order, a close_call iff the event is took_damage with amount strictly
\* greater than 30, a milestone for every reached_point, an obstacle for
\* every path_blocked and nothing for any other event; only close_call and
\* milestone reach the long-term store, obstacle stays in the short-term
\* event buffer only.
C30_EventsOfAPerception ==
    /\ [](\A perception \in Snapshots :
            EventsAsExpected(
                perception, Memory,
                process_with_memory(Memory, perception, Context, "json").memory))
    /\ [][(ret' = Command /\ prompt' # prompt /\ "user_json" \in DOMAIN prompt') =>
             EventsAsExpected(prompt'.user_json, Memory, Memory')]_vars

\* a snapshot with a heavy hit and a blocked path has been handled: both
\* are in the event buffer, the close call alone is a memorable moment
C30_Witness ==
    /\ ret = Command
    /\ Len(event_log) = 2
    /\ event_log[1].type = "close_call"
    /\ event_log[2].type = "obstacle"
    /\ Len(game_events) = 2
    /\ Len(data.memorable_moments) = 1
    /\ data.memorable_moments[1].type = "close_call"

----------------------------------------------------------------------------
(* Concurrently handled requests *)

\* C22: under every interleaving of concurrent add_conversation /
\* add_chat_message / add_event calls with get_context_for_llm, no reader
\* observes a buffer in a partially-evicted state: whenever
\* get_context_for_llm reads the buffers, none of them holds more entries
\* than its size.
C22_ReaderNeverSeesOverfullBuffer ==
    [][get_context_for_llm =>
          /\ Len(conversations) <= max_conversations
          /\ Len(chat_conversations) <= max_chat
          /\ Len(game_events) <= max_events]_vars

\* thread t appends the assistant turn of its request in this step
AssistantAppended(t) ==
    /\ threads[t].pc = "assistant_append"
    /\ threads'[t].pc = "assistant_evict"

\* C26: each successfully processed perception appends exactly two
\* game-control turns, the user turn immediately followed by its assistant
\* turn, under every interleaving of concurrently handled requests: when a
\* request appends its assistant turn, the turn right before it, in the
\* buffer and in the sequence of all recorded turns, is the user turn of the
\* same request.
C26_TurnsOfARequestStayAdjacent ==
    [][\A t \in Threads :
          AssistantAppended(t) =>
              LET n == Len(conversations')
                  k == Len(conv_log')
              IN  /\ conversations'[n].role = "assistant"
                  /\ conversations'[n - 1].role = "user"
                  /\ conversations'[n - 1].time = threads[t].turn
                  /\ conv_log'[k - 1].time = threads[t].turn]_vars

============================================================================
